---- MODULE Spec2Model ----
(***************************************************************************)
(* EIC_gen.py (class EICgen): conversion of the raw mzXML files of a       *)
(* target directory, construction of the record store, and the asyncio     *)
(* fan-out of one extraction task per feature into one output table.       *)
(*                                                                         *)
(* Paths are sequences of tokens in which "." and "/" are tokens of their  *)
(* own, so that str.split('.') and os.path.basename are computed.  m/z,    *)
(* retention time, tolerance and zoom window are integers in a fixed unit. *)
(***************************************************************************)
EXTENDS Integers, Sequences, FiniteSets, TLC

\* ------------------------------------------------------------------ bounds
MaxFeatures == 2   \* data rows of the target feature file
CpuCount == 1      \* os.cpu_count() of the host
MaxRuns == 2       \* consecutive program runs over the same directory

\* ------------------------------------------------------------------ paths
Dot == "."
Sep == "/"

Last(s) == s[Len(s)]

Range(s) == {s[i] : i \in 1..Len(s)}

\* str.split('.'): the pieces between the "." tokens
RECURSIVE split(_)
split(p) ==
    IF p = <<>> THEN << <<>> >>
    ELSE LET rest == split(Tail(p)) IN
         IF Head(p) = Dot THEN << <<>> >> \o rest
         ELSE << <<Head(p)>> \o Head(rest) >> \o Tail(rest)

\* os.path.basename: what follows the last "/"
RECURSIVE basename(_)
basename(p) ==
    IF p = <<>> THEN <<>>
    ELSE IF Last(p) = Sep THEN <<>>
    ELSE Append(basename(SubSeq(p, 1, Len(p) - 1)), Last(p))

\* os.path.abspath(os.path.join(mzXML_dir, f))
abs_join(d, f) == d \o <<Sep>> \o f

\* f.split('.')[-1] == 'mzXML'
is_mzXML(f) == Last(split(f)) = <<"mzXML">>

\* out = mzXML_file.split('.')[0] + '.csv'
csv_out_first_dot(f) == split(f)[1] \o <<Dot, "csv">>

csv_out(f) == csv_out_first_dot(f)

\* parse_mzXML (module mzXML_to_csv): the converted file is written next to
\* its source, same stem, tabular extension
converted_path(f) == SubSeq(f, 1, Len(f) - 1) \o <<"csv">>

\* ------------------------------------------------------------------ inputs
\* target directories: one plain, one with a "." in a directory component
Dirs == { <<Sep, "d">>, <<Sep, "d", Dot, "v">> }

\* raw scan files that may be present (short names)
RawNames == { <<"a", Dot, "mzXML">>, <<"b", Dot, "mzXML">>,
              <<"a", Dot, "x", Dot, "mzXML">> }

\* converted files that may be present before the first run
PreCsvNames == { <<"a", Dot, "csv">> }

target_file == <<"t", Dot, "csv">>

eic_file == <<"EIC_CSV", Dot, "csv">>

Scan(m, r, i) == [mz |-> m, rt |-> r, intensity |-> i]

\* the scan records the converter extracts from a raw file, by short name
scans_of(name) ==
    IF name[1] = "b" THEN << Scan(12, 4, 30), Scan(10, 5, 40) >>
    ELSE IF Len(name) > 3 THEN << Scan(9, 3, 50) >>
    ELSE << Scan(8, 4, 10), Scan(11, 7, 20) >>

\* the scan records of a converted file present before the first run
pre_scans == << Scan(12, 6, 60) >>

\* kwargs of EICgen(...): column numbers start at 1
mz_column == 1
rt_column == 2
feature_id_col == 3
Tolerances == {2}
ZoomWindows == {2}

\* ------------------------------------------------------------------ state
VARIABLES
    pc,           \* position of the main thread
    runNo,        \* number of the current program run
    mzXML_dir,    \* self.mzXML_dir, absolute
    files,        \* paths present in the target directory (the disk)
    csvData,      \* path of a converted file on disk -> its scan records
    tolerance,    \* self.tolerance
    zoom_window,  \* self.zoom_window
    dir_files,    \* self.dir_files
    mzXML_files,  \* self.mzXML_files
    mzCSV_files,  \* mzCSV_files / self.mzCSV_files
    nxt,          \* index of the next mzXML file of the scheduling loop
    queue,        \* work items submitted to the executor, not yet started
    running,      \* raw files whose parse_mzXML call is in progress
    conv_ok,      \* raw files whose parse_mzXML call returned, this run
    conv_failed,  \* raw files whose parse_mzXML call raised, this run
    submitted,    \* raw files handed to executor.submit, this run, in order
    prev,         \* the previous run: whether no conversion failed, the
                  \* converted files it left
    dfs,          \* self.dfs, the record store
    out_open,     \* EICfile is open
    written,      \* rows written through csv.writer, this run
    written_by,   \* for each row of written, the task that wrote it (0: run)
    target,       \* data rows of the target file as csv.reader yields them
    fpos,         \* 0: features() not entered; else index of its next row
    coros,        \* features for which a write_feature_rows coroutine exists
    task,         \* state of each extraction task created by asyncio.wait
    rows,         \* rows returned by get_feature_rows to each task
    wpos          \* number of its rows each task has written

vars == << pc, runNo, mzXML_dir, files, csvData, tolerance, zoom_window,
           dir_files, mzXML_files, mzCSV_files, nxt, queue, running, conv_ok,
           conv_failed, submitted, prev, dfs, out_open, written, written_by,
           target, fpos, coros, task, rows, wpos >>

conv_vars == << queue, running, conv_ok, conv_failed, submitted >>
init_vars == << tolerance, zoom_window, dir_files, mzXML_files, mzCSV_files, nxt >>
run_vars == << out_open, written, written_by, target, fpos, coros, task, rows, wpos >>
disk_vars == << files, csvData >>

\* faulty variant of max_threads: one worker per raw file
max_threads_per_file == Len(mzXML_files)

\* self.max_threads = os.cpu_count() + 1
max_threads == CpuCount + 1

\* all orders in which os.listdir may return the members of S
Orders(S) == { s \in [1..Cardinality(S) -> S] :
                 \A i, j \in 1..Cardinality(S) : s[i] = s[j] => i = j }

NoPrev == [ran |-> FALSE, clean |-> TRUE, csvs |-> {}]

Init ==
    /\ pc = "start"
    /\ runNo = 1
    /\ mzXML_dir \in Dirs
    /\ \E raw \in SUBSET RawNames, pre \in SUBSET PreCsvNames, hasTarget \in BOOLEAN :
          /\ files = { abs_join(mzXML_dir, f) :
                         f \in raw \cup pre \cup (IF hasTarget THEN {target_file} ELSE {}) }
          /\ csvData = [p \in { abs_join(mzXML_dir, f) : f \in pre } |-> pre_scans]
    /\ tolerance = 0
    /\ zoom_window = 0
    /\ dir_files = {}
    /\ mzXML_files = <<>>
    /\ mzCSV_files = <<>>
    /\ nxt = 1
    /\ queue = <<>>
    /\ running = {}
    /\ conv_ok = {}
    /\ conv_failed = {}
    /\ submitted = <<>>
    /\ prev = NoPrev
    /\ dfs = <<>>
    /\ out_open = FALSE
    /\ written = <<>>
    /\ written_by = <<>>
    /\ target = <<>>
    /\ fpos = 0
    /\ coros = <<>>
    /\ task = <<>>
    /\ rows = <<>>
    /\ wpos = <<>>

\* ------------------------------------------------------------------ __init__
\* lines 105-123: the options, the directory listing, the raw files in it
Construct ==
    /\ pc = "start"
    /\ tolerance' \in Tolerances
    /\ zoom_window' \in ZoomWindows
    /\ dir_files' = files
    /\ mzXML_files' \in Orders({ f \in files : is_mzXML(f) })
    /\ mzCSV_files' = <<>>
    /\ nxt' = 1
    /\ pc' = "convert"
    /\ UNCHANGED << runNo, mzXML_dir, disk_vars, conv_vars, prev, dfs, run_vars >>

\* lines 170-175: one iteration of the scheduling loop
Schedule ==
    /\ pc = "convert"
    /\ nxt <= Len(mzXML_files)
    /\ LET mzXML_file == mzXML_files[nxt]
           out == csv_out(mzXML_file)
       IN /\ mzCSV_files' = Append(mzCSV_files, out)
          /\ IF out \in dir_files
             THEN UNCHANGED << queue, submitted >>
             ELSE /\ queue' = Append(queue, mzXML_file)
                  /\ submitted' = Append(submitted, mzXML_file)
    /\ nxt' = nxt + 1
    /\ UNCHANGED << pc, runNo, mzXML_dir, disk_vars, tolerance, zoom_window,
                    dir_files, mzXML_files, running, conv_ok, conv_failed,
                    prev, dfs, run_vars >>

\* ThreadPoolExecutor(max_workers=self.max_threads): a worker takes a work item
WorkerTake ==
    /\ queue # <<>>
    /\ Cardinality(running) < max_threads
    /\ running' = running \cup {Head(queue)}
    /\ queue' = Tail(queue)
    /\ UNCHANGED << pc, runNo, mzXML_dir, disk_vars, init_vars, conv_ok,
                    conv_failed, submitted, prev, dfs, run_vars >>

\* parse_mzXML(mzXML_file) returns: the converted file is on disk
ParseOk(f) ==
    /\ f \in running
    /\ running' = running \ {f}
    /\ conv_ok' = conv_ok \cup {f}
    /\ files' = files \cup {converted_path(f)}
    /\ csvData' = [p \in DOMAIN csvData \cup {converted_path(f)} |->
                     IF p = converted_path(f) THEN scans_of(basename(f))
                     ELSE csvData[p]]
    /\ UNCHANGED << pc, runNo, mzXML_dir, init_vars, queue, conv_failed,
                    submitted, prev, dfs, run_vars >>

\* parse_mzXML(mzXML_file) raises: the exception stays in the Future that
\* executor.submit returned, which nobody keeps
ParseFail(f) ==
    /\ f \in running
    /\ running' = running \ {f}
    /\ conv_failed' = conv_failed \cup {f}
    /\ UNCHANGED << pc, runNo, mzXML_dir, disk_vars, init_vars, queue, conv_ok,
                    submitted, prev, dfs, run_vars >>

\* faulty variant of ExecutorExit: the pool is left without waiting for the
\* work items (shutdown(wait=False))
ExecutorExit_nowait ==
    /\ pc = "convert"
    /\ nxt > Len(mzXML_files)
    /\ pc' = "read"
    /\ UNCHANGED << runNo, mzXML_dir, disk_vars, init_vars, conv_vars, prev,
                    dfs, run_vars >>

\* lines 169, 176, 126: leaving the with block waits for every work item
ExecutorExit ==
    /\ pc = "convert"
    /\ nxt > Len(mzXML_files)
    /\ queue = <<>>
    /\ running = {}
    /\ pc' = "read"
    /\ UNCHANGED << runNo, mzXML_dir, disk_vars, init_vars, conv_vars, prev,
                    dfs, run_vars >>

\* read_csv: the records of one converted file, tagged with its basename
read_csv(csv_file) ==
    [i \in 1..Len(csvData[csv_file]) |->
        [mz |-> csvData[csv_file][i].mz, rt |-> csvData[csv_file][i].rt,
         intensity |-> csvData[csv_file][i].intensity,
         File |-> basename(csv_file)]]

\* pandas.concat over the frames of the listed files, in list order
RECURSIVE concat(_)
concat(paths) ==
    IF paths = <<>> THEN <<>> ELSE read_csv(Head(paths)) \o concat(Tail(paths))

\* lines 178-185, 131: read every listed converted file; a missing file makes
\* read_csv raise, an empty list makes pandas.concat raise.  A listed path
\* outside the target directory (a "." in a directory name) names no file.
read_mzCSV_files ==
    /\ pc = "read"
    /\ IF mzCSV_files = <<>> \/ \E p \in Range(mzCSV_files) : p \notin DOMAIN csvData
       THEN /\ pc' = "crashed"
            /\ dfs' = dfs
       ELSE /\ pc' = "constructed"
            /\ dfs' = concat(mzCSV_files)
    /\ UNCHANGED << runNo, mzXML_dir, disk_vars, init_vars, conv_vars, prev,
                    run_vars >>

\* ------------------------------------------------------------------ features
\* a cell of the target file: text that float() accepts, or other text
Num(v) == <<"num", v>>
Str(t) == <<"str", t>>

\* rows the target feature file may hold after its header
FeatureFileRows ==
    { << Num(10), Num(5), Str("F1") >>,
      << Num(11), Num(6), Str("F2") >>,
      << Str("n/a"), Num(5), Str("F3") >>,
      << Num(10) >> }

\* contents the target feature file may have: at most MaxFeatures data rows
TargetContents ==
    UNION { [1..n -> FeatureFileRows] : n \in 0..MaxFeatures }

\* translate columns to zero indexed column numbers (lines 115-117)
mz_col == mz_column - 1
RT_col == rt_column - 1
id_col == feature_id_col - 1

\* row[k] of a Python list, k >= 0, raises IndexError past the end
has_col(row, k) == k + 1 <= Len(row)

\* lines 192-194 succeed on this row
parses(row) ==
    /\ has_col(row, mz_col) /\ row[mz_col + 1][1] = "num"
    /\ has_col(row, RT_col) /\ row[RT_col + 1][1] = "num"
    /\ has_col(row, id_col)

\* Feature(mz, RT, feature_id) of a row that parses
Feature(row) ==
    [mz |-> row[mz_col + 1][2], RT |-> row[RT_col + 1][2],
     feature_id |-> row[id_col + 1][2]]

\* ------------------------------------------------------------------ get_feature_rows
\* faulty variant of in_mz_window: the bounds are inclusive
in_mz_window_inclusive(r, F) ==
    r.mz <= F.mz + tolerance /\ r.mz >= F.mz - tolerance

\* line 203: the record passes the m/z filter of feature F
in_mz_window(r, F) == r.mz < F.mz + tolerance /\ r.mz > F.mz - tolerance

\* faulty variant of zoom_of: the bounds are inclusive
zoom_of_inclusive(r, F) ==
    IF r.rt <= F.RT + zoom_window /\ r.rt >= F.RT - zoom_window
    THEN "TRUE" ELSE "FALSE"

\* faulty variant of zoom_of: the Zoom column is shared with the store, so a
\* "TRUE" written for another feature survives the fillna of line 215
zoom_of_shared(r, F) ==
    IF \/ r.rt < F.RT + zoom_window /\ r.rt > F.RT - zoom_window
       \/ \E n \in 1..Len(written) :
             /\ written[n].kind = "data"
             /\ written[n].cells[2] = r.rt
             /\ written[n].cells[3] = r.intensity
             /\ written[n].cells[4] = r.mz
             /\ written[n].cells[5] = r.File
             /\ written[n].cells[6] = "TRUE"
    THEN "TRUE" ELSE "FALSE"

\* lines 209-215: the Zoom value of a record for feature F.  The column is
\* created by the .loc assignment even when no row is in the window, and
\* fillna(inplace=True) on df['Zoom'] reaches df in the pandas releases that
\* run on the Python 3.8 of line 1.
zoom_of(r, F) ==
    IF r.rt < F.RT + zoom_window /\ r.rt > F.RT - zoom_window
    THEN "TRUE" ELSE "FALSE"

\* line 217: the columns Feature, rt, intensity, mz, File, Zoom of one row
feature_row(r, F) ==
    << F.feature_id, r.rt, r.intensity, r.mz, r.File, zoom_of(r, F) >>

\* self.dfs[mask]: the records that pass, in store order
RECURSIVE filter_store(_, _)
filter_store(store, F) ==
    IF store = <<>> THEN <<>>
    ELSE IF in_mz_window(Head(store), F)
         THEN <<Head(store)>> \o filter_store(Tail(store), F)
         ELSE filter_store(Tail(store), F)

\* faulty variant of store_after: the filtered frame is a view of the store,
\* so the Feature column of line 207 lands in the matching store records
store_after_view(F) ==
    [k \in 1..Len(dfs) |->
        IF in_mz_window(dfs[k], F)
        THEN [mz |-> dfs[k].mz, rt |-> dfs[k].rt, intensity |-> dfs[k].intensity,
              File |-> dfs[k].File, Feature |-> F.feature_id]
        ELSE dfs[k]]

\* self.dfs once get_feature_rows(F) has returned: indexing with a boolean
\* mask (line 203) makes a new frame, lines 207-215 assign the Feature and
\* Zoom columns to that frame, and line 217 reads it
store_after(F) == dfs

\* faulty variant of get_feature_rows: a feature without a match gets one
\* row of empty cells
get_feature_rows_blank_row(F) ==
    LET df == filter_store(dfs, F)
    IN IF Len(df) = 0 THEN << << F.feature_id, 0, 0, 0, <<>>, "FALSE" >> >>
       ELSE [i \in 1..Len(df) |-> feature_row(df[i], F)]

\* lines 197-217
get_feature_rows(F) ==
    LET df == filter_store(dfs, F)
    IN IF Len(df) = 0 THEN <<>>
       ELSE [i \in 1..Len(df) |-> feature_row(df[i], F)]

\* ------------------------------------------------------------------ run
\* line 138
Header == << "Feature", "RT", "Intensity", "mz", "File", "Zoom" >>

\* os.path.join(self.mzXML_dir, <date> + '_EIC_CSV.csv')
out_path == abs_join(mzXML_dir, eic_file)

\* leaving the with block of line 136 on an exception: EICfile is closed
Abort ==
    /\ out_open' = FALSE
    /\ pc' = "aborted"

\* faulty variant of OpenOut: the output is opened and no header is written
OpenOut_noheader ==
    /\ pc = "constructed"
    /\ files' = files \cup {out_path}
    /\ out_open' = TRUE
    /\ written' = <<>>
    /\ written_by' = <<>>
    /\ pc' = "features"
    /\ UNCHANGED << runNo, mzXML_dir, csvData, init_vars, conv_vars, prev, dfs,
                    target, fpos, coros, task, rows, wpos >>

\* lines 135-138: open the output, write the header
OpenOut ==
    /\ pc = "constructed"
    /\ files' = files \cup {out_path}
    /\ out_open' = TRUE
    /\ written' = << [kind |-> "header", cells |-> Header] >>
    /\ written_by' = << 0 >>
    /\ pc' = "features"
    /\ UNCHANGED << runNo, mzXML_dir, csvData, init_vars, conv_vars, prev, dfs,
                    target, fpos, coros, task, rows, wpos >>

\* lines 145, 188-190: the list comprehension enters features(), which opens
\* the target file and skips its header
FeaturesOpen ==
    /\ pc = "features"
    /\ fpos = 0
    /\ IF abs_join(mzXML_dir, target_file) \in files
       THEN /\ target' \in TargetContents
            /\ fpos' = 1
            /\ UNCHANGED << pc, out_open >>
       ELSE /\ Abort
            /\ UNCHANGED << target, fpos >>
    /\ UNCHANGED << runNo, mzXML_dir, disk_vars, init_vars, conv_vars, prev, dfs,
                    written, written_by, coros, task, rows, wpos >>

\* lines 145, 191-195: features() yields the next feature and the list
\* comprehension makes its coroutine, or the row does not parse
FeaturesNext ==
    /\ pc = "features"
    /\ fpos >= 1
    /\ fpos <= Len(target)
    /\ IF parses(target[fpos])
       THEN /\ coros' = Append(coros, Feature(target[fpos]))
            /\ fpos' = fpos + 1
            /\ UNCHANGED << pc, out_open >>
       ELSE /\ Abort
            /\ UNCHANGED << coros, fpos >>
    /\ UNCHANGED << runNo, mzXML_dir, disk_vars, init_vars, conv_vars, prev, dfs,
                    written, written_by, target, task, rows, wpos >>

\* faulty variant of loop_free: the tasks are threads, any may run at any time
loop_free_threads == TRUE

\* faulty variant of loop_free: a task gives up the loop between two rows
loop_free_yield == \A j \in DOMAIN task : task[j] = "writing" => wpos[j] > 0

\* the event loop runs one task step at a time, and a step of
\* write_feature_rows ends only where the coroutine ends: get_feature_rows
\* awaits nothing, so no other task runs while task i is inside its body
loop_free == \A j \in DOMAIN task : task[j] # "writing"

\* faulty variant of tasks_of: one task per distinct feature
tasks_of_dedup(cs) == [i \in 1..Cardinality(Range(cs)) |-> "pending"]

\* {ensure_future(f) for f in set(fs)}: one task per coroutine of the list
tasks_of(cs) == [i \in 1..Len(cs) |-> "pending"]

\* line 144: asyncio.wait wraps every coroutine in a task; it raises
\* ValueError on an empty list
AsyncioWait ==
    /\ pc = "features"
    /\ fpos > Len(target)
    /\ IF coros = <<>>
       THEN /\ Abort
            /\ UNCHANGED << task, rows, wpos >>
       ELSE /\ task' = tasks_of(coros)
            /\ rows' = [i \in DOMAIN tasks_of(coros) |-> <<>>]
            /\ wpos' = [i \in DOMAIN tasks_of(coros) |-> 0]
            /\ pc' = "wait"
            /\ UNCHANGED out_open
    /\ UNCHANGED << runNo, mzXML_dir, disk_vars, init_vars, conv_vars, prev, dfs,
                    written, written_by, target, fpos, coros >>

\* line 141: the loop starts task i, get_feature_rows returns
TaskStart(i) ==
    /\ pc = "wait"
    /\ i \in DOMAIN task
    /\ task[i] = "pending"
    /\ loop_free
    /\ rows' = [rows EXCEPT ![i] = get_feature_rows(coros[i])]
    /\ dfs' = store_after(coros[i])
    /\ task' = [task EXCEPT ![i] = "writing"]
    /\ UNCHANGED << pc, runNo, mzXML_dir, disk_vars, init_vars, conv_vars, prev,
                    out_open, written, written_by, target, fpos, coros, wpos >>

\* line 142: writer.writerows writes the next row of task i
TaskWriteRow(i) ==
    /\ pc = "wait"
    /\ i \in DOMAIN task
    /\ task[i] = "writing"
    /\ wpos[i] < Len(rows[i])
    /\ written' = Append(written, [kind |-> "data", cells |-> rows[i][wpos[i] + 1]])
    /\ written_by' = Append(written_by, i)
    /\ wpos' = [wpos EXCEPT ![i] = wpos[i] + 1]
    /\ UNCHANGED << pc, runNo, mzXML_dir, disk_vars, init_vars, conv_vars, prev,
                    dfs, out_open, target, fpos, coros, task, rows >>

\* line 142: writer.writerows returns, the coroutine of task i ends
TaskDone(i) ==
    /\ pc = "wait"
    /\ i \in DOMAIN task
    /\ task[i] = "writing"
    /\ wpos[i] = Len(rows[i])
    /\ task' = [task EXCEPT ![i] = "done"]
    /\ UNCHANGED << pc, runNo, mzXML_dir, disk_vars, init_vars, conv_vars, prev,
                    dfs, out_open, written, written_by, target, fpos, coros,
                    rows, wpos >>

\* line 141: get_feature_rows raises in task i; the task ends and keeps the
\* exception, which asyncio.wait does not raise in run()
TaskRaise(i) ==
    /\ pc = "wait"
    /\ i \in DOMAIN task
    /\ task[i] = "pending"
    /\ loop_free
    /\ task' = [task EXCEPT ![i] = "failed"]
    /\ UNCHANGED << pc, runNo, mzXML_dir, disk_vars, init_vars, conv_vars, prev,
                    dfs, out_open, written, written_by, target, fpos, coros,
                    rows, wpos >>

\* faulty variant of all_ended: asyncio.wait(return_when=FIRST_COMPLETED)
all_ended_first_completed == \E i \in DOMAIN task : task[i] \in {"done", "failed"}

\* faulty variant of all_ended: asyncio.wait(return_when=FIRST_EXCEPTION)
all_ended_first_exception ==
    \/ \A i \in DOMAIN task : task[i] \in {"done", "failed"}
    \/ \E i \in DOMAIN task : task[i] = "failed"

\* asyncio.wait(return_when=ALL_COMPLETED) returns once every task has ended,
\* with a result or with an exception
all_ended == \A i \in DOMAIN task : task[i] \in {"done", "failed"}

\* lines 144-150: asyncio.wait returns, the with block closes EICfile
WaitReturn ==
    /\ pc = "wait"
    /\ all_ended
    /\ out_open' = FALSE
    /\ pc' = "done"
    /\ UNCHANGED << runNo, mzXML_dir, disk_vars, init_vars, conv_vars, prev, dfs,
                    written, written_by, target, fpos, coros, task, rows, wpos >>

\* the program is started again over the same directory
Rerun ==
    /\ pc \in {"done", "aborted", "crashed"}
    /\ runNo < MaxRuns
    /\ runNo' = runNo + 1
    /\ prev' = [ran |-> TRUE, clean |-> (conv_failed = {}),
                csvs |-> DOMAIN csvData]
    /\ pc' = "start"
    /\ tolerance' = 0
    /\ zoom_window' = 0
    /\ dir_files' = {}
    /\ mzXML_files' = <<>>
    /\ mzCSV_files' = <<>>
    /\ nxt' = 1
    /\ queue' = <<>>
    /\ running' = {}
    /\ conv_ok' = {}
    /\ conv_failed' = {}
    /\ submitted' = <<>>
    /\ dfs' = <<>>
    /\ out_open' = FALSE
    /\ written' = <<>>
    /\ written_by' = <<>>
    /\ target' = <<>>
    /\ fpos' = 0
    /\ coros' = <<>>
    /\ task' = <<>>
    /\ rows' = <<>>
    /\ wpos' = <<>>
    /\ UNCHANGED << mzXML_dir, disk_vars >>

\* ------------------------------------------------------------------ specifications
Tasks == 1..MaxFeatures

Next ==
    \/ Construct
    \/ Schedule
    \/ WorkerTake
    \/ \E f \in running : ParseOk(f)
    \/ \E f \in running : ParseFail(f)
    \/ ExecutorExit
    \/ read_mzCSV_files
    \/ OpenOut
    \/ FeaturesOpen
    \/ FeaturesNext
    \/ AsyncioWait
    \/ \E i \in Tasks : TaskStart(i)
    \/ \E i \in Tasks : TaskWriteRow(i)
    \/ \E i \in Tasks : TaskDone(i)
    \/ WaitReturn
    \/ Rerun

Spec == Init /\ [][Next]_vars

\* the steps of the program itself: every thread and the event loop go on
Step ==
    \/ Construct
    \/ Schedule
    \/ WorkerTake
    \/ \E f \in running : ParseOk(f) \/ ParseFail(f)
    \/ ExecutorExit
    \/ read_mzCSV_files
    \/ OpenOut
    \/ FeaturesOpen
    \/ FeaturesNext
    \/ AsyncioWait
    \/ \E i \in Tasks : TaskStart(i) \/ TaskWriteRow(i) \/ TaskDone(i)
    \/ WaitReturn

FairSpec == Spec /\ WF_vars(Step)

\* the same program where get_feature_rows may raise in a task
NextFault == Next \/ \E i \in Tasks : TaskRaise(i)

FaultSpec == Init /\ [][NextFault]_vars

FairFaultSpec == FaultSpec /\ WF_vars(Step)

\* ------------------------------------------------------------------ properties
\* task i has got its rows from get_feature_rows
has_rows(i) == i \in DOMAIN task /\ task[i] \in {"writing", "done"}

\* positions of the store records strictly inside the m/z window of F
matching(F) ==
    { k \in 1..Len(dfs) :
        F.mz - tolerance < dfs[k].mz /\ dfs[k].mz < F.mz + tolerance }

\* the n-th position of S, in increasing order
nth(S, n) == CHOOSE k \in S : Cardinality({ j \in S : j < k }) = n - 1

\* the cells of the data rows task i has written, in output order
RECURSIVE block_upto(_, _)
block_upto(i, n) ==
    IF n = 0 THEN <<>>
    ELSE IF written_by[n] = i
         THEN Append(block_upto(i, n - 1), written[n].cells)
         ELSE block_upto(i, n - 1)

block(i) == block_upto(i, Len(written))

RECURSIVE sum_matching(_)
sum_matching(n) ==
    IF n = 0 THEN 0
    ELSE sum_matching(n - 1) + Cardinality(matching(Feature(target[n])))

\* C1: get_feature_rows(f) holds one row per store record r with
\* f.mz - tolerance < r.mz < f.mz + tolerance, both bounds strict, in store
\* order, and no row for any other record.
C1_ToleranceFilter ==
    \A i \in DOMAIN task :
        has_rows(i) =>
            LET M == matching(coros[i]) IN
            /\ Len(rows[i]) = Cardinality(M)
            /\ \A n \in 1..Len(rows[i]) :
                  LET r == dfs[nth(M, n)] IN
                  /\ rows[i][n][2] = r.rt
                  /\ rows[i][n][3] = r.intensity
                  /\ rows[i][n][4] = r.mz
                  /\ rows[i][n][5] = r.File

C1_Witness ==
    \E i \in DOMAIN task :
        /\ has_rows(i)
        /\ rows[i] # <<>>
        /\ \E k \in 1..Len(dfs) : dfs[k].mz = coros[i].mz - tolerance
        /\ \E k \in 1..Len(dfs) : dfs[k].mz = coros[i].mz + tolerance

\* C2: every row of get_feature_rows(f) has Zoom "TRUE" or "FALSE", and
\* "TRUE" exactly when f.RT - zoom_window < row.rt < f.RT + zoom_window.
C2_ZoomTagging ==
    \A i \in DOMAIN task :
        has_rows(i) =>
            \A n \in 1..Len(rows[i]) :
                /\ rows[i][n][6] \in {"TRUE", "FALSE"}
                /\ rows[i][n][6] = "TRUE" <=>
                      /\ coros[i].RT - zoom_window < rows[i][n][2]
                      /\ rows[i][n][2] < coros[i].RT + zoom_window

C2_Witness ==
    \E i, j \in DOMAIN task :
        /\ has_rows(i) /\ has_rows(j)
        /\ rows[i] # <<>> /\ rows[j] # <<>>
        /\ \A n \in 1..Len(rows[i]) : rows[i][n][6] = "FALSE"
        /\ \E n \in 1..Len(rows[i]) : rows[i][n][2] = coros[i].RT + zoom_window
        /\ \A n \in 1..Len(rows[j]) : rows[j][n][6] = "TRUE"

\* C3: when run() has finished, there is one task per data row of the target
\* file, each task has written as many rows as store records match its
\* feature, and the data rows of the output number the sum of these counts.
C3_RowConservation ==
    pc = "done" =>
        /\ Len(coros) = Len(target)
        /\ DOMAIN task = 1..Len(target)
        /\ \A i \in 1..Len(target) :
              Len(block(i)) = Cardinality(matching(Feature(target[i])))
        /\ Len(written) - 1 = sum_matching(Len(target))

C3_Witness ==
    /\ pc = "done"
    /\ Len(target) = 2
    /\ target[1] = target[2]
    /\ Len(block(1)) >= 1
    /\ Len(block(2)) >= 1

\* C4: the rows one task has written are contiguous in the output, and they
\* are the first rows get_feature_rows returned to it, in that order (all of
\* them once the task is done).
C4_ContiguousBlocks ==
    /\ \A p, q, r \in DOMAIN written :
          (p < q /\ q < r /\ written_by[p] = written_by[r])
              => written_by[q] = written_by[p]
    /\ \A i \in DOMAIN task :
          /\ Len(block(i)) <= Len(rows[i])
          /\ block(i) = SubSeq(rows[i], 1, Len(block(i)))
          /\ task[i] = "done" => block(i) = rows[i]

C4_Witness ==
    /\ pc = "done"
    /\ \E i, j \in DOMAIN task :
          i # j /\ Len(block(i)) >= 2 /\ Len(block(j)) >= 2

\* C6: at most one extraction task is inside the write step at any time.
C6_WriteSerialized ==
    Cardinality({ i \in DOMAIN task : task[i] = "writing" }) <= 1

C6_Witness ==
    \E i, j \in DOMAIN task :
        /\ task[i] = "writing"
        /\ wpos[i] >= 1
        /\ task[j] = "pending"

\* the claim C5 as first stated, at the end of a run: every feature that
\* features() yielded has a task, and the task is done.
C5_EveryYieldedFeatureRan ==
    pc \in {"done", "aborted"} =>
        \A i \in 1..Len(coros) : i \in DOMAIN task /\ task[i] = "done"

\* a task that is launched and has not ended keeps the output open, and
\* run() is done only when every task is done with all its rows written
C5_ClosedAfterTasks ==
    /\ \A i \in DOMAIN task : task[i] \in {"pending", "writing"} => out_open
    /\ pc = "done" =>
          /\ ~out_open
          /\ \A i \in DOMAIN task : task[i] = "done" /\ block(i) = rows[i]

\* once features() is exhausted, every feature it yielded has a task
C5_TaskPerFeature ==
    pc \in {"wait", "done"} =>
        /\ Len(coros) = Len(target)
        /\ DOMAIN task = 1..Len(coros)

\* C5 (amended): the output is closed only after every launched task has
\* ended with its rows written, never while a launched task is pending; and
\* when features() is exhausted without raising, every feature it yielded gets
\* a task, and every task eventually completes.
C5_CompletionDiscipline ==
    /\ []C5_ClosedAfterTasks
    /\ []C5_TaskPerFeature
    /\ (pc = "wait") ~> (pc = "done" /\ \A i \in DOMAIN task : task[i] = "done")

C5_Witness ==
    /\ pc = "done"
    /\ ~out_open
    /\ Len(task) = 2
    /\ Len(block(1)) >= 1
    /\ Len(block(2)) >= 1

\* C10: when get_feature_rows raises in the task of one feature, that task
\* writes no row, run() stays in its wait, every other task ends done with
\* all its rows written, and run() closes the output and finishes.
C10_Isolated ==
    /\ (\E i \in DOMAIN task : task[i] = "failed") => pc \in {"wait", "done"}
    /\ \A i \in DOMAIN task : task[i] = "failed" => block(i) = <<>>
    /\ pc = "done" =>
          /\ ~out_open
          /\ \A i \in DOMAIN task :
                task[i] # "failed" =>
                    /\ task[i] = "done"
                    /\ block(i) = rows[i]
                    /\ Len(block(i)) = Cardinality(matching(coros[i]))

C10_ExtractionFailureIsolated ==
    /\ []C10_Isolated
    /\ (\E i \in DOMAIN task : task[i] = "failed") ~> (pc = "done" /\ ~out_open)

C10_Witness ==
    /\ pc = "done"
    /\ \E i, j \in DOMAIN task :
          /\ task[i] = "failed"
          /\ matching(coros[i]) # {}
          /\ task[j] = "done"
          /\ Len(block(j)) >= 1

\* C7: once convert_all_mzXML_to_CSV has returned, the converted path of a
\* raw file whose conversion failed is not in the returned list, the store
\* holds no record of it, and the construction has not failed.
C7_ConversionFailureIsolated ==
    pc \notin {"start", "convert"} =>
        \A f \in conv_failed :
            /\ csv_out(f) \notin Range(mzCSV_files)
            /\ \A k \in 1..Len(dfs) : dfs[k].File # basename(csv_out(f))
            /\ pc # "crashed"

\* C8: in a run that follows a run in which no conversion failed, no raw file
\* is submitted to the converter and no converted file is added; in any run a
\* raw file is submitted at most once.
C8_IdempotentConversion ==
    /\ (prev.ran /\ prev.clean) =>
          /\ submitted = <<>>
          /\ DOMAIN csvData = prev.csvs
    /\ \A i, j \in 1..Len(submitted) : submitted[i] = submitted[j] => i = j

\* features() has raised: the target file is missing, or the row it was
\* reading has a non-numeric m/z or RT or lacks a configured column
config_error ==
    \/ abs_join(mzXML_dir, target_file) \notin files
    \/ fpos >= 1 /\ fpos <= Len(target) /\ ~parses(target[fpos])

\* C9: when the run aborts on a configuration error, nothing has been written
\* to the output, neither the header nor a data row.
C9_NothingWrittenOnConfigError ==
    (pc = "aborted" /\ config_error) => written = <<>>

\* C11: when the directory holds no raw scan file, the construction does not
\* fail, the store is empty, every feature gets zero rows, and the finished
\* output holds the header row alone.
C11_EmptyStoreOnlyHeader ==
    (pc # "start" /\ mzXML_files = <<>>) =>
        /\ pc # "crashed"
        /\ dfs = <<>>
        /\ \A i \in DOMAIN task : has_rows(i) => rows[i] = <<>>
        /\ pc = "done" => (Len(written) = 1 /\ written[1].kind = "header")

\* C12: a feature with no store record strictly inside its m/z window gets
\* an empty sequence from get_feature_rows, its task ends done without
\* writing a row, and every other task still writes exactly its own rows.
C12_NoMatchIsNoError ==
    /\ \A i \in DOMAIN task :
          (has_rows(i) /\ matching(coros[i]) = {}) =>
              /\ rows[i] = <<>>
              /\ block(i) = <<>>
    /\ pc = "done" =>
          \A i \in DOMAIN task :
              /\ task[i] = "done"
              /\ Len(block(i)) = Cardinality(matching(coros[i]))

C12_Witness ==
    /\ pc = "done"
    /\ dfs # <<>>
    /\ \E i, j \in DOMAIN task :
          /\ matching(coros[i]) = {}
          /\ matching(coros[j]) # {}
          /\ Len(block(j)) >= 1

\* the columns of a store record
StoreColumns == {"mz", "rt", "intensity", "File"}

\* a step taken while the store is built and run() has not ended keeps the
\* store and the columns of its records
StoreKept ==
    pc \in {"constructed", "features", "wait"} =>
        (dfs' = dfs /\ \A k \in 1..Len(dfs') : DOMAIN dfs'[k] = StoreColumns)

\* C13: from the moment the store is built until run() ends, no step changes
\* the store: neither the sequence of its records, nor a field of a record,
\* nor the set of columns of a record.
C13_StoreImmutable == [][StoreKept]_vars

C13_Witness ==
    /\ pc = "done"
    /\ dfs # <<>>
    /\ Len(task) = 2
    /\ rows[1] # <<>>
    /\ rows[2] # <<>>
    /\ \A k \in 1..Len(dfs) : DOMAIN dfs[k] = StoreColumns

\* a raw path with only its final extension replaced by the tabular one
same_stem_csv(f) == SubSeq(f, 1, Len(f) - 1) \o <<"csv">>

\* C14: the path derived for every raw file is the raw path with only its
\* final extension replaced (same directory, same stem), and the returned
\* list holds one path per raw file.
C14_ConvertedPathDerivation ==
    /\ \A k \in 1..Len(mzCSV_files) :
          mzCSV_files[k] = same_stem_csv(mzXML_files[k])
    /\ pc \notin {"start", "convert"} => Len(mzCSV_files) = Len(mzXML_files)

\* at most os.cpu_count() + 1 conversions are in progress, each of a raw file
\* that was submitted
C15_PoolWithinBound ==
    /\ Cardinality(running) <= CpuCount + 1
    /\ running \subseteq Range(submitted)

\* C15: at every instant of the conversion phase at most (processing units
\* + 1) raw files are being converted, however many are pending; the others
\* wait in the queue, and every submitted conversion is eventually started.
C15_BoundedPool ==
    /\ []C15_PoolWithinBound
    /\ (queue # <<>>) ~> (queue = <<>>)

C15_Witness ==
    /\ Cardinality(running) = CpuCount + 1
    /\ queue # <<>>

\* the block of feature F as a function of the store, the feature and the
\* two windows only
block_of(F) ==
    LET M == matching(F) IN
    [n \in 1..Cardinality(M) |->
        LET r == dfs[nth(M, n)] IN
        << F.feature_id, r.rt, r.intensity, r.mz, r.File,
           IF F.RT - zoom_window < r.rt /\ r.rt < F.RT + zoom_window
           THEN "TRUE" ELSE "FALSE" >>]

\* C16: for a fixed store and feature sequence, the block of rows each
\* extraction task writes is the same under every scheduling order of the
\* tasks: it is block_of(feature), a function of the store and the feature
\* that no step of another task enters; while a task is writing its block is
\* a prefix of it, and at the end of run() it is the whole of it.
C16_DeterministicMerge ==
    \A i \in DOMAIN task :
        /\ Len(block(i)) <= Len(block_of(coros[i]))
        /\ block(i) = SubSeq(block_of(coros[i]), 1, Len(block(i)))
        /\ (pc = "done" /\ task[i] = "done") => block(i) = block_of(coros[i])

\* two tasks share a store record and the later feature's block is written
\* first
C16_Witness ==
    /\ pc = "done"
    /\ Len(task) = 2
    /\ matching(coros[1]) \cap matching(coros[2]) # {}
    /\ block(1) # <<>> /\ block(2) # <<>>
    /\ block(1) # block(2)
    /\ written_by[2] = 2
    /\ written_by[Len(written_by)] = 1

\* C17: the store is read from the converted files only after every
\* submitted conversion has finished, succeeded or failed, so none is in
\* progress or queued from the read on; the store is empty until then, and
\* no extraction task exists before the store is completely built.
C17_PhaseOrdering ==
    /\ pc \notin {"start", "convert"} =>
          /\ queue = <<>>
          /\ running = {}
          /\ Range(submitted) \subseteq conv_ok \cup conv_failed
    /\ pc \in {"start", "convert", "read"} =>
          /\ dfs = <<>>
          /\ task = <<>>
    /\ task # <<>> =>
          /\ pc \in {"wait", "done"}
          /\ dfs = concat(mzCSV_files)

C17_Witness ==
    /\ pc = "wait"
    /\ conv_ok # {}
    /\ conv_failed # {}
    /\ dfs # <<>>
    /\ \E i \in DOMAIN task : task[i] = "writing"

\* C18: once run() has opened the output, the output starts with the header
\* row Feature, RT, Intensity, mz, File, Zoom, every later row is a data row
\* (the header is there exactly once, no data row precedes it), and the
\* header is there before any extraction task exists.
C18_HeaderDiscipline ==
    /\ pc \in {"features", "wait", "done", "aborted"} => written # <<>>
    /\ written # <<>> =>
          /\ written[1].kind = "header"
          /\ written[1].cells = << "Feature", "RT", "Intensity", "mz", "File", "Zoom" >>
          /\ \A k \in 2..Len(written) : written[k].kind = "data"
    /\ task # <<>> => written # <<>>
    /\ pc \in {"start", "convert", "read", "constructed", "crashed"} => written = <<>>

C18_Witness ==
    /\ pc = "done"
    /\ Len(written) >= 4
    /\ \E i, j \in DOMAIN task : i # j /\ block(i) # <<>> /\ block(j) # <<>>

\* the converted file p has a raw counterpart in the directory listing
has_raw(p) == \E f \in dir_files : is_mzXML(f) /\ same_stem_csv(f) = p

\* C19: once the store is built, every record in it was read from a listed
\* converted file that has a raw scan file in the directory listing, and its
\* File field is that file's basename; the target feature file and converted
\* files without a raw counterpart are never loaded.
C19_StoreProvenance ==
    pc \in {"constructed", "features", "wait", "done", "aborted"} =>
        /\ \A k \in 1..Len(dfs) :
              \E p \in Range(mzCSV_files) :
                  /\ has_raw(p)
                  /\ dfs[k].File = basename(p)
                  /\ \E n \in 1..Len(csvData[p]) :
                        /\ csvData[p][n].mz = dfs[k].mz
                        /\ csvData[p][n].rt = dfs[k].rt
                        /\ csvData[p][n].intensity = dfs[k].intensity
        /\ \A p \in Range(mzCSV_files) :
              /\ has_raw(p)
              /\ p # abs_join(mzXML_dir, target_file)

====
